---- MODULE Spec2Model ----
(***************************************************************************)
(* Teams-Broadcast (src/main.py): the JSON-file-backed store of            *)
(* conversation references, the turn handler on_turn, the broadcaster      *)
(* send_adaptive_card and the two HTTP handlers that drive them, run on    *)
(* one asyncio event loop.  A step of the model is what the event loop     *)
(* runs between two suspension points (await) of a coroutine.              *)
(***************************************************************************)
EXTENDS Integers, Sequences, FiniteSets, TLC

VARIABLES
    phase,   \* "boot" before line 104 has run, "running" after it
    refs,    \* CONVERSATION_REFERENCES: an insertion-ordered dict, as a
             \* sequence of [key, ref]
    file,    \* the content of REFS_FILE on disk
    req,     \* the POST /api/messages requests of the run, one per slot
    bc,      \* the GET /send-card request of the run; bc.start keeps the
             \* store as the loop of line 171 found it
    faults   \* how many calls the environment has made fail so far (a
             \* write of the file, the router, the transport)

vars == <<phase, refs, file, req, bc, faults>>

----------------------------------------------------------------------------
(* Bounds of the model                                                     *)

\* the number of POST /api/messages requests that can be in flight together
NumTurns == 2
\* the largest number of entries of the backing file at startup
MaxFileEntries == 2
\* the largest number of calls the environment makes fail in one run
MaxFaults == 1

----------------------------------------------------------------------------
(* Python values                                                           *)

\* Python's None where a string is expected
NONE == "<none>"

\* A sub-object of an activity or of a reference.  kind "obj" is an SDK
\* model object (ChannelAccount, ConversationAccount), which has as_dict()
\* and attributes; kind "dict" is a plain non-empty dict as json.load
\* returns it, which has get() and no attributes; kind "str" is a JSON
\* scalar that is truthy and is neither; kind "none" is None (an empty
\* dict {} behaves like None everywhere the program looks at it).
NoneVal == [kind |-> "none", id |-> NONE]
Obj(i) == [kind |-> "obj", id |-> i]
Dict(i) == [kind |-> "dict", id |-> i]
Scalar == [kind |-> "str", id |-> NONE]

\* truth value of a sub-object and of an optional string
Truthy(v) == v.kind # "none"
TruthyStr(s) == s # NONE /\ s # ""

\* ActivityTypes of botbuilder.schema (src/main.py:4)
MessageType == "message"
ConversationUpdateType == "conversationUpdate"

TeamsChannel == "msteams"
\* the fixed greeting of line 236
Greeting == "Hello! How can I assist you today?"

----------------------------------------------------------------------------
(* The ordered dict CONVERSATION_REFERENCES                                *)

Keys(store) == {store[i].key : i \in 1..Len(store)}

HasKey(store, key) == key \in Keys(store)

IndexOf(store, key) == CHOOSE i \in 1..Len(store) : store[i].key = key

Lookup(store, key) == store[IndexOf(store, key)].ref

\* d.setdefault(key, ref) in the place of d[key] = ref: a present key keeps
\* the reference it has
SetItem_KeepPresent(store, key, ref) ==
    IF HasKey(store, key) THEN store
    ELSE Append(store, [key |-> key, ref |-> ref])

\* d = {key: ref} in the place of d[key] = ref: the other entries are gone
SetItem_Alone(store, key, ref) == <<[key |-> key, ref |-> ref]>>

\* d[key] = ref: a present key keeps its position, a new key goes last
SetItem(store, key, ref) ==
    IF HasKey(store, key)
    THEN [store EXCEPT ![IndexOf(store, key)].ref = ref]
    ELSE Append(store, [key |-> key, ref |-> ref])

\* f"{activity.channel_id}:{activity.conversation.id}"
ConversationKey(channel_id, conv_id) == channel_id \o ":" \o conv_id

\* the strings that can follow "msteams:" in a key of the model
KeySuffixes == {"", "a", "b"}

\* key.startswith("msteams:")
StartsWithTeams(key) == key \in {(TeamsChannel \o ":") \o s : s \in KeySuffixes}

----------------------------------------------------------------------------
(* load_conversation_references                                            *)

\* ConversationReference(**val): the keyword arguments are stored as they
\* are, a dict stays a dict
ReferenceFromVal(val) ==
    [activity_id |-> val.activity_id, user |-> val.user, bot |-> val.bot,
     conversation |-> val.conversation, channel_id |-> val.channel_id,
     service_url |-> val.service_url]

\* line 76 without its first test: the key's channel is not looked at
EntryVerdict_AnyChannel(e) ==
    IF e.val.kind # "rec" THEN "raise"
    ELSE IF ~Truthy(e.val.conversation) THEN "skip"
    ELSE IF e.val.conversation.kind # "dict" THEN "raise"
    ELSE IF ~TruthyStr(e.val.conversation.id) THEN "skip"
    ELSE "accept"

\* line 76 for one entry of the file: "accept", "skip" (line 79) or "raise"
\* (val.get on a value that is no dict, or .get on a conversation that is
\* no dict)
EntryVerdict(e) ==
    IF ~StartsWithTeams(e.key) THEN "skip"
    ELSE IF e.val.kind # "rec" THEN "raise"
    ELSE IF ~Truthy(e.val.conversation) THEN "skip"
    ELSE IF e.val.conversation.kind # "dict" THEN "raise"
    ELSE IF ~TruthyStr(e.val.conversation.id) THEN "skip"
    ELSE "accept"

\* the loop of lines 75-79 from entry i on, valid_refs being acc
RECURSIVE LoadEntries(_, _, _)
LoadEntries(entries, i, acc) ==
    IF i > Len(entries) THEN [raised |-> FALSE, refs |-> acc]
    ELSE LET v == EntryVerdict(entries[i]) IN
         IF v = "raise" THEN [raised |-> TRUE, refs |-> acc]
         ELSE IF v = "accept"
         THEN LoadEntries(entries, i + 1,
                  SetItem(acc, entries[i].key, ReferenceFromVal(entries[i].val)))
         ELSE LoadEntries(entries, i + 1, acc)

\* load_conversation_references() filling CONVERSATION_REFERENCES entry by
\* entry instead of assigning valid_refs at line 80
LoadResult_Partial(f, old) ==
    IF f.kind = "missing" THEN [raised |-> FALSE, refs |-> old, exc |-> NONE]
    ELSE IF f.kind # "json" THEN [raised |-> TRUE, refs |-> old, exc |-> NONE]
    ELSE LET r == LoadEntries(f.entries, 1, <<>>) IN
         [raised |-> r.raised, refs |-> r.refs, exc |-> NONE]

\* load_conversation_references(): what CONVERSATION_REFERENCES is after it,
\* whether the try block raised, and the exception that leaves the function
\* (none: line 82 catches them all).  valid_refs is local until line 80.
LoadResult(f, old) ==
    IF f.kind = "missing" THEN [raised |-> FALSE, refs |-> old, exc |-> NONE]
    ELSE IF f.kind # "json" THEN [raised |-> TRUE, refs |-> old, exc |-> NONE]
    ELSE LET r == LoadEntries(f.entries, 1, <<>>) IN
         IF r.raised THEN [raised |-> TRUE, refs |-> old, exc |-> NONE]
         ELSE [raised |-> FALSE, refs |-> r.refs, exc |-> NONE]

----------------------------------------------------------------------------
(* save_conversation_references                                            *)

\* x.as_dict() of an SDK model object
AsDict(o) == [kind |-> "dict", id |-> o.id]

\* "x.as_dict() if x else None" raises AttributeError on a dict
CanSerialize(o) == o.kind \in {"none", "obj"}

SerializeSub(o) == IF Truthy(o) THEN AsDict(o) ELSE NoneVal

\* lines 90-97 with 'user' and 'bot' written from each other's attribute
SerializeRef_Swapped(ref) ==
    [kind |-> "rec", activity_id |-> ref.activity_id,
     user |-> SerializeSub(ref.bot), bot |-> SerializeSub(ref.user),
     conversation |-> SerializeSub(ref.conversation),
     channel_id |-> ref.channel_id, service_url |-> ref.service_url]

\* lines 90-97: the six fields of one reference
SerializeRef(ref) ==
    [kind |-> "rec", activity_id |-> ref.activity_id,
     user |-> SerializeSub(ref.user), bot |-> SerializeSub(ref.bot),
     conversation |-> SerializeSub(ref.conversation),
     channel_id |-> ref.channel_id, service_url |-> ref.service_url]

\* the snapshot taken before the entry stored last was written
SerializeStore_BeforeLast(store) ==
    [i \in 1..(Len(store) - 1) |->
        [key |-> store[i].key, val |-> SerializeRef(store[i].ref)]]

\* lines 89-98: every entry of the dict as it is when save runs
SerializeStore(store) ==
    [i \in 1..Len(store) |-> [key |-> store[i].key, val |-> SerializeRef(store[i].ref)]]

\* what the file system does to a write: "ok", "open_error" (open(..., 'w')
\* raises and the file is as it was) or "write_error" (json.dump raises after
\* the file was truncated)
IoOutcomes == {"ok", "open_error", "write_error"}

EmptyFile == [kind |-> "garbage", entries |-> <<>>]

\* lines 86-100 and what they raise: the file after them, whether the try
\* block ran to its end, and the exception it was left with
SaveAttempt(store, f, io) ==
    IF io = "open_error" THEN [ok |-> FALSE, file |-> f, raised |-> "OSError"]
    ELSE IF \E i \in 1..Len(store) :
                ~ (/\ CanSerialize(store[i].ref.user)
                   /\ CanSerialize(store[i].ref.bot)
                   /\ CanSerialize(store[i].ref.conversation))
    THEN [ok |-> FALSE, file |-> EmptyFile, raised |-> "AttributeError"]
    ELSE IF io = "write_error"
    THEN [ok |-> FALSE, file |-> EmptyFile, raised |-> "OSError"]
    ELSE [ok |-> TRUE, file |-> [kind |-> "json", entries |-> SerializeStore(store)],
          raised |-> NONE]

\* save_conversation_references() without the handler of lines 101-102: the
\* exception of the try block leaves the function
SaveResult_Uncaught(store, f, io) == SaveAttempt(store, f, io)

\* save_conversation_references(): every exception of the try block is
\* caught and printed at lines 101-102, none leaves the function
SaveResult(store, f, io) ==
    [SaveAttempt(store, f, io) EXCEPT !.raised = NONE]

----------------------------------------------------------------------------
(* on_turn                                                                 *)

\* what the router returns (response_text.content) or raises
RouterContents == {"r1"}
Exceptions == {"ValueError", "RuntimeError"}
RouterOutcomes ==
    {[kind |-> "ok", content |-> c, exc |-> NONE] : c \in RouterContents}
    \cup {[kind |-> "raise", content |-> NONE, exc |-> e] : e \in Exceptions}

\* line 207 without its second test: an empty id passes
NoConversationId_AbsentOnly(act) == ~Truthy(act.conversation)

\* line 207: the activity carries no conversation identity
NoConversationId(act) ==
    ~Truthy(act.conversation) \/ ~TruthyStr(act.conversation.id)

\* line 214 without its second test: a changed service_url is not stored
NeedsUpsert_NewOnly(act, store) ==
    /\ act.channel_id = TeamsChannel
    /\ ~HasKey(store, ConversationKey(act.channel_id, act.conversation.id))

\* lines 213-214: the reference of this activity has to be stored
NeedsUpsert(act, store) ==
    LET key == ConversationKey(act.channel_id, act.conversation.id) IN
    /\ act.channel_id = TeamsChannel
    /\ \/ ~HasKey(store, key)
       \/ Lookup(store, key).service_url # act.service_url

\* lines 215-222: the reference built from the activity
BuildReference(act) ==
    [activity_id |-> act.id, user |-> act.from_property, bot |-> act.recipient,
     conversation |-> act.conversation, channel_id |-> act.channel_id,
     service_url |-> act.service_url]

\* lines 234-237 looking at the first added member only
RECURSIVE MembersOutcome_FirstOnly(_, _)
MembersOutcome_FirstOnly(act, i) ==
    IF i > Len(act.members_added) THEN "nothing"
    ELSE IF ~Truthy(act.recipient) THEN "raise"
    ELSE IF act.members_added[i].id # act.recipient.id THEN "greet"
    ELSE "nothing"

\* lines 234-237 from member i on: "greet" at the first member whose id is
\* not the recipient's, "raise" when the comparison reads recipient.id of a
\* missing recipient, "nothing" when the list ends
RECURSIVE MembersOutcome(_, _)
MembersOutcome(act, i) ==
    IF i > Len(act.members_added) THEN "nothing"
    ELSE IF ~Truthy(act.recipient) THEN "raise"
    ELSE IF act.members_added[i].id # act.recipient.id THEN "greet"
    ELSE MembersOutcome(act, i + 1)

\* line 226 moved under the test of line 213: only Teams messages are routed
IsMessage_TeamsOnly(act) ==
    act.type = MessageType /\ act.channel_id = TeamsChannel

\* line 226
IsMessage(act) == act.type = MessageType

\* lines 229-230: MessageFactory.text(response_text.content)
ReplyText(ro) == ro.content

\* line 233
IsMembersAdded(act) ==
    act.type = ConversationUpdateType /\ Len(act.members_added) > 0

\* on_turn from its first line to the call of the router (line 228), to its
\* first suspension point, to its return or to its exception.  Nothing in
\* lines 205-227 awaits: the store update and the save run in one step of
\* the event loop.
\*   next: "call_router" (supervisor_team.run is entered), "await_send"
\*   (send_activity was called and is awaited), "return" or "raise"
OnTurn(act, store, f, io) ==
    LET quiet == [refs |-> store, file |-> f, saves |-> <<>>,
                  routerCalls |-> <<>>, replies |-> <<>>,
                  next |-> "return", exc |-> NONE]
    IN
    IF NoConversationId(act) THEN quiet
    ELSE
    LET key == ConversationKey(act.channel_id, act.conversation.id)
        up == NeedsUpsert(act, store)
        store1 == IF up THEN SetItem(store, key, BuildReference(act)) ELSE store
        sv == SaveResult(store1, f, io)
        stored == [quiet EXCEPT !.refs = store1,
                                !.file = IF up THEN sv.file ELSE f,
                                !.saves = IF up THEN <<sv.ok>> ELSE <<>>]
    IN
    IF up /\ sv.raised # NONE
    THEN [stored EXCEPT !.next = "raise", !.exc = sv.raised]
    ELSE IF IsMessage(act)
    THEN [stored EXCEPT !.routerCalls = <<act.text>>, !.next = "call_router"]
    ELSE IF IsMembersAdded(act)
    THEN LET m == MembersOutcome(act, 1) IN
         IF m = "greet"
         THEN [stored EXCEPT !.replies = <<Greeting>>, !.next = "await_send"]
         ELSE IF m = "raise"
         THEN [stored EXCEPT !.next = "raise", !.exc = "AttributeError"]
         ELSE stored
    ELSE stored

\* lines 228-230 inside a try block whose handler answers the user: the
\* router's exception is caught and an apology is sent
AfterRouter_Caught(ro) ==
    IF ro.kind = "raise"
    THEN [replies |-> <<"sorry">>, next |-> "await_send", exc |-> NONE]
    ELSE [replies |-> <<ReplyText(ro)>>, next |-> "await_send", exc |-> NONE]

\* lines 228-230 once supervisor_team.run is over: its exception leaves
\* on_turn, or its content is handed to send_activity, which is awaited
AfterRouter(ro) ==
    IF ro.kind = "raise"
    THEN [replies |-> <<>>, next |-> "raise", exc |-> ro.exc]
    ELSE [replies |-> <<ReplyText(ro)>>, next |-> "await_send", exc |-> NONE]

\* messages(), lines 251-254: the HTTP status for an exception
StatusOf(exc) == IF exc = "ValueError" THEN 400 ELSE 500

----------------------------------------------------------------------------
(* send_adaptive_card                                                      *)

\* what adapter.continue_conversation does: it returns, or raises
TransportOutcomes == {"ok"} \cup Exceptions

InvalidResult(key) ==
    [conversation |-> key, status |-> "error", message |-> "Invalid conversation.id"]
SuccessResult(key) ==
    [conversation |-> key, status |-> "success", message |-> NONE]
ErrorResult(key, e) ==
    [conversation |-> key, status |-> "error", message |-> e]

\* line 172 for one reference: "invalid" (lines 173-175), "send", or "raise"
\* when .id is read from a conversation that is a dict
RefVerdict(ref) ==
    IF ~Truthy(ref.conversation) THEN "invalid"
    ELSE IF ref.conversation.kind # "obj" THEN "raise"
    ELSE IF ~TruthyStr(ref.conversation.id) THEN "invalid"
    ELSE "send"

\* the dict iterator's check at each next(): the dict has the size it had
\* when the iteration began
SizeUnchanged(store, b) == Len(store) = b.used

\* the for loop of line 171 from its head to the next suspension point
\* (the await of line 192), the return of line 203 or an exception
RECURSIVE Iterate(_, _)
Iterate(store, b) ==
    IF ~SizeUnchanged(store, b)
    THEN [b EXCEPT !.pc = "raised", !.exc = "RuntimeError", !.cur = NONE]
    ELSE IF b.pos >= Len(store)
    THEN [b EXCEPT !.pc = "done", !.status = "completed", !.cur = NONE]
    ELSE LET item == store[b.pos + 1]
             v == RefVerdict(item.ref)
             b1 == [b EXCEPT !.pos = b.pos + 1]
         IN
         IF v = "invalid"
         THEN Iterate(store, [b1 EXCEPT !.results = Append(b.results, InvalidResult(item.key))])
         ELSE IF v = "raise"
         THEN [b1 EXCEPT !.pc = "raised", !.exc = "AttributeError", !.cur = NONE]
         ELSE [b1 EXCEPT !.pc = "awaiting", !.cur = item.key,
                         !.calls = Append(b.calls, item.key)]

\* line 166 left out: the loop runs over the empty store
StoreIsEmpty_Never(store) == FALSE

\* line 166
StoreIsEmpty(store) == Len(store) = 0

\* send_adaptive_card() from its first line to its first suspension point
StartBroadcast(store, b) ==
    IF StoreIsEmpty(store)
    THEN [b EXCEPT !.pc = "done", !.status = "error"]
    ELSE Iterate(store, [b EXCEPT !.pos = 0, !.used = Len(store), !.start = store])

\* lines 197-201: the outcome of the awaited transport call is recorded
RecordOutcome(b, out) ==
    [b EXCEPT !.results =
        Append(b.results, IF out = "ok" THEN SuccessResult(b.cur)
                          ELSE ErrorResult(b.cur, out))]

----------------------------------------------------------------------------
(* The requests of a run                                                   *)

Turns == 1..NumTurns

ConvIds == {"a", "b"}
Channels == {TeamsChannel, "webchat"}
ServiceUrls == {"u1", "u2"}
Texts == {"hi", NONE}

Bot == Obj("bot")
User == Obj("user")
User2 == Obj("user2")

\* activity.conversation: absent, without an id, with an empty id, with an id
Conversations == {NoneVal, Obj(NONE), Obj("")} \cup {Obj(c) : c \in ConvIds}

\* activity.id, activity.from_property, activity.recipient: all there or
\* all absent
Optionals == {<<"act1", User, Bot>>, <<NONE, NoneVal, NoneVal>>}

MemberLists == {<<>>, <<Bot>>, <<User>>, <<Bot, User>>, <<User, User2>>}

\* type, text and members_added as they come together
Shapes ==
    {<<MessageType, x, <<>> >> : x \in Texts}
    \cup {<<ConversationUpdateType, NONE, m>> : m \in MemberLists}
    \cup {<<"typing", NONE, <<>> >>}

MakeActivity(shape, ch, conv, url, opt) ==
    [type |-> shape[1], text |-> shape[2], members_added |-> shape[3],
     channel_id |-> ch, conversation |-> conv, service_url |-> url,
     id |-> opt[1], from_property |-> opt[2], recipient |-> opt[3]]

Activities ==
    {MakeActivity(s, ch, conv, url, opt) :
        s \in Shapes, ch \in Channels, conv \in Conversations,
        url \in ServiceUrls, opt \in Optionals}

TeamsMessage(c, url) ==
    MakeActivity(<<MessageType, "hi", <<>> >>, TeamsChannel, Obj(c), url,
                 <<"act1", User, Bot>>)

NoRouter == [kind |-> "none", content |-> NONE, exc |-> NONE]

Request(pc, body, act) ==
    [pc |-> pc, body |-> body, act |-> act, routerCalls |-> <<>>,
     router |-> NoRouter, replies |-> <<>>, saves |-> <<>>,
     status |-> 0, exc |-> NONE]

NoRequest == Request("none", "none", TeamsMessage("a", "u1"))
MalformedRequest == Request("pending", "malformed", TeamsMessage("a", "u1"))
ActivityRequest(act) == Request("pending", "json", act)

Broadcast(pc) ==
    [pc |-> pc, pos |-> 0, used |-> 0, cur |-> NONE, results |-> <<>>,
     calls |-> <<>>, status |-> NONE, exc |-> NONE, start |-> <<>>]

----------------------------------------------------------------------------
(* The backing file at startup                                             *)

\* a value of the file's object that is no object itself (null)
NullVal ==
    [kind |-> "null", activity_id |-> NONE, user |-> NoneVal, bot |-> NoneVal,
     conversation |-> NoneVal, channel_id |-> NONE, service_url |-> NONE]

Record(conv, ch, url) ==
    [kind |-> "rec", activity_id |-> "act1", user |-> Dict("user"),
     bot |-> Dict("bot"), conversation |-> conv, channel_id |-> ch,
     service_url |-> url]

\* "conversation" of a record: null or absent, an object without an id,
\* with an empty id, with an id, or a scalar
FileConversations ==
    {NoneVal, Dict(NONE), Dict(""), Scalar} \cup {Dict(c) : c \in ConvIds}

FileVals ==
    {NullVal} \cup {Record(conv, ch, "u1") : conv \in FileConversations, ch \in Channels}

FileKeys ==
    {ConversationKey(TeamsChannel, "a"), ConversationKey(TeamsChannel, "b"),
     ConversationKey("webchat", "a")}

FileEntries == {[key |-> k, val |-> v] : k \in FileKeys, v \in FileVals}

\* the objects of at most MaxFileEntries members (a JSON object holds a key once)
JsonFiles ==
    {[kind |-> "json", entries |-> s] :
        s \in UNION {{q \in [1..n -> FileEntries] :
                        \A i, j \in 1..n : i < j => q[i].key # q[j].key}
                     : n \in 0..MaxFileEntries}}

MissingFile == [kind |-> "missing", entries |-> <<>>]
\* parseable JSON that is no object (data.items() raises)
NonObjectFile == [kind |-> "nonobject", entries |-> <<>>]

BootFiles == JsonFiles \cup {MissingFile, EmptyFile, NonObjectFile}

\* the file an earlier run of the program wrote for one Teams conversation
WrittenFile ==
    [kind |-> "json",
     entries |-> <<[key |-> ConversationKey(TeamsChannel, "a"),
                    val |-> Record(Dict("a"), TeamsChannel, "u1")]>>]

----------------------------------------------------------------------------
(* The state machine                                                       *)

SetupRequests == <<ActivityRequest(TeamsMessage("a", "u1")), NoRequest>>

CoreRequests ==
    <<ActivityRequest(TeamsMessage("a", "u1")),
      ActivityRequest(TeamsMessage("b", "u1")),
      ActivityRequest(TeamsMessage("a", "u2")),
      NoRequest>>

\* The slots are interchangeable: which request sits in which slot changes
\* nothing, so the requests of a run are laid out in one order only.
Layouts(from, choices) ==
    {[t \in from..NumTurns |-> choices[f[t]]] :
        f \in {g \in [from..NumTurns -> 1..Len(choices)] :
                  \A i, j \in from..NumTurns : i < j => g[i] <= g[j]}}

\* one request of any content, beside requests that fill the store
InitOneTurn ==
    /\ file = MissingFile
    /\ \E r \in {ActivityRequest(a) : a \in Activities} \cup {MalformedRequest} :
       \E others \in Layouts(2, SetupRequests) :
          req = [t \in Turns |-> IF t = 1 THEN r ELSE others[t]]
    /\ bc = Broadcast("none")

\* a startup on any file, followed by a broadcast
InitStartup ==
    /\ file \in BootFiles
    /\ req = [t \in Turns |-> NoRequest]
    /\ bc = Broadcast("pending")

\* Teams messages handled while a broadcast runs
InitConcurrent ==
    /\ file \in {MissingFile, WrittenFile}
    /\ req \in Layouts(1, CoreRequests)
    /\ bc = Broadcast("pending")

\* the module has been imported up to line 103
Init ==
    /\ phase = "boot"
    /\ refs = <<>>
    /\ faults = 0
    /\ (InitOneTurn \/ InitStartup \/ InitConcurrent)

\* line 104
Load ==
    /\ phase = "boot"
    /\ phase' = IF LoadResult(file, refs).exc = NONE THEN "running" ELSE "crashed"
    /\ refs' = LoadResult(file, refs).refs
    /\ UNCHANGED <<file, req, bc, faults>>

\* supervisor_team.run (line 228) is a plain call, not awaited: while it
\* runs for some turn the thread is inside it and the event loop resumes no
\* coroutine and starts no handler
Blocked == \E t \in Turns : req[t].pc = "routing"

\* messages() for a body that is no JSON: request.json() raises a ValueError
MessagesMalformed(t) ==
    /\ phase = "running"
    /\ ~Blocked
    /\ req[t].pc = "pending"
    /\ req[t].body = "malformed"
    /\ req' = [req EXCEPT ![t].pc = "done", ![t].exc = "ValueError",
                          ![t].status = StatusOf("ValueError")]
    /\ UNCHANGED <<phase, refs, file, bc, faults>>

\* messages() up to the router call or the first suspension point of on_turn
Messages(t) ==
    /\ phase = "running"
    /\ ~Blocked
    /\ req[t].pc = "pending"
    /\ req[t].body = "json"
    /\ \E io \in IoOutcomes :
          LET r == OnTurn(req[t].act, refs, file, io)
              failed == IF io # "ok" THEN 1 ELSE 0
          IN
          \* a call that is not made has one outcome
          /\ Len(r.saves) = 0 => io = "ok"
          /\ faults + failed <= MaxFaults
          /\ faults' = faults + failed
          /\ refs' = r.refs
          /\ file' = r.file
          /\ req' = [req EXCEPT ![t] =
                [@ EXCEPT !.pc = IF r.next = "call_router" THEN "routing"
                                 ELSE IF r.next = "await_send" THEN "sending"
                                 ELSE "done",
                          !.routerCalls = r.routerCalls,
                          !.replies = r.replies,
                          !.saves = r.saves,
                          !.exc = r.exc,
                          !.status = IF r.next = "return" THEN 200
                                     ELSE IF r.next = "raise" THEN StatusOf(r.exc)
                                     ELSE 0]]
    /\ UNCHANGED <<phase, bc>>

\* supervisor_team.run returns or raises (lines 228-230): the reply is
\* handed to send_activity, or the exception reaches messages()
RouterReturns(t) ==
    /\ req[t].pc = "routing"
    /\ \E ro \in RouterOutcomes :
          LET r == AfterRouter(ro) IN
          /\ ro.kind = "raise" => faults < MaxFaults
          /\ faults' = IF ro.kind = "raise" THEN faults + 1 ELSE faults
          /\ req' = [req EXCEPT ![t] =
                [@ EXCEPT !.pc = IF r.next = "await_send" THEN "sending" ELSE "done",
                          !.router = ro,
                          !.replies = r.replies,
                          !.exc = r.exc,
                          !.status = IF r.next = "raise" THEN StatusOf(r.exc) ELSE 0]]
    /\ UNCHANGED <<phase, refs, file, bc>>

\* the awaited send_activity of line 230 or 236 returns or raises; on_turn
\* returns after it and messages() answers
SendReturns(t) ==
    /\ ~Blocked
    /\ req[t].pc = "sending"
    /\ \E out \in TransportOutcomes :
          /\ out # "ok" => faults < MaxFaults
          /\ faults' = IF out = "ok" THEN faults ELSE faults + 1
          /\ req' = [req EXCEPT ![t].pc = "done",
                                ![t].exc = IF out = "ok" THEN NONE ELSE out,
                                ![t].status = IF out = "ok" THEN 200 ELSE StatusOf(out)]
    /\ UNCHANGED <<phase, refs, file, bc>>

\* send_card() calls send_adaptive_card()
SendCard ==
    /\ phase = "running"
    /\ ~Blocked
    /\ bc.pc = "pending"
    /\ bc' = StartBroadcast(refs, bc)
    /\ UNCHANGED <<phase, refs, file, req, faults>>

\* the awaited continue_conversation of line 192 returns or raises, and the
\* loop goes on
TransportReturns ==
    /\ ~Blocked
    /\ bc.pc = "awaiting"
    /\ \E out \in TransportOutcomes :
          /\ out # "ok" => faults < MaxFaults
          /\ faults' = IF out = "ok" THEN faults ELSE faults + 1
          /\ bc' = Iterate(refs, RecordOutcome(bc, out))
    /\ UNCHANGED <<phase, refs, file, req>>

Next ==
    \/ Load
    \/ \E t \in Turns : MessagesMalformed(t)
    \/ \E t \in Turns : Messages(t)
    \/ \E t \in Turns : RouterReturns(t)
    \/ \E t \in Turns : SendReturns(t)
    \/ SendCard
    \/ TransportReturns

Spec == Init /\ [][Next]_vars

\* a first deployment: the process starts without a backing file
InitFresh == Init /\ file = MissingFile

SpecFresh == InitFresh /\ [][Next]_vars

----------------------------------------------------------------------------
(* Properties                                                              *)

\* on_turn has run for the request of slot t up to its first suspension
\* point, its return or its exception
Handled(t) == req[t].body = "json" /\ req[t].pc \in {"sending", "done"}

\* this step is that run of on_turn for slot t
HandlesNow(t) ==
    req[t].body = "json" /\ req[t].pc = "pending" /\ req'[t].pc # "pending"

\* the activity has no conversation, or a conversation whose id is missing
\* or empty
LacksConversationId(act) ==
    act.conversation.kind = "none" \/ act.conversation.id \in {NONE, ""}

\* C1: an activity whose conversation is absent or whose conversation.id is
\* empty, of any type and on any channel, leaves the store and the file as
\* they are, never reaches the router and gets no reply.
C1_NoConversationNoEffect ==
    [][\A t \in Turns :
          (HandlesNow(t) /\ LacksConversationId(req[t].act)) =>
              /\ refs' = refs
              /\ file' = file
              /\ req'[t].saves = <<>>
              /\ req'[t].routerCalls = <<>>
              /\ req'[t].replies = <<>>
              /\ req'[t].pc = "done"]_vars

\* a Teams message with an empty conversation id has been handled
C1_Witness ==
    \E t \in Turns :
        /\ Handled(t) /\ req[t].pc = "done"
        /\ req[t].act.type = MessageType
        /\ req[t].act.channel_id = TeamsChannel
        /\ req[t].act.conversation = Obj("")
        /\ refs = <<>>

\* C2: for a message with a conversation id, on any channel, the router is
\* invoked exactly once with the activity's text; when it returns, exactly
\* one reply is sent and its content is the router's output; no other reply
\* is sent in that turn.
C2_MessageRoutedOnce ==
    \A t \in Turns :
        (/\ Handled(t)
         /\ req[t].act.type = MessageType
         /\ ~LacksConversationId(req[t].act)) =>
            /\ req[t].routerCalls = <<req[t].act.text>>
            /\ req[t].router.kind \in {"ok", "raise"}
            /\ req[t].router.kind = "ok" => req[t].replies = <<req[t].router.content>>
            /\ req[t].router.kind = "raise" => req[t].replies = <<>>

\* a message on a channel that is not Teams was answered with the router's
\* output
C2_Witness ==
    \E t \in Turns :
        /\ Handled(t) /\ req[t].pc = "done" /\ req[t].status = 200
        /\ req[t].act.type = MessageType
        /\ req[t].act.channel_id = "webchat"
        /\ req[t].act.conversation = Obj("a")
        /\ req[t].routerCalls = <<"hi">>
        /\ req[t].replies = <<"r1">>

\* the key of an activity and what the claim calls "new or changed"
KeyOf(act) == act.channel_id \o ":" \o act.conversation.id
NewOrChanged(act, store) ==
    \/ \A i \in 1..Len(store) : store[i].key # KeyOf(act)
    \/ \E i \in 1..Len(store) :
          store[i].key = KeyOf(act) /\ store[i].ref.service_url # act.service_url

\* the reference under `key` holds the six fields of the activity
HoldsFieldsOf(store, key, act) ==
    \E i \in 1..Len(store) :
        /\ store[i].key = key
        /\ store[i].ref.activity_id = act.id
        /\ store[i].ref.user = act.from_property
        /\ store[i].ref.bot = act.recipient
        /\ store[i].ref.conversation = act.conversation
        /\ store[i].ref.channel_id = act.channel_id
        /\ store[i].ref.service_url = act.service_url

\* the entries under the keys other than `key` are the same in both stores
OthersUnchanged(old, new, key) ==
    /\ \A i \in 1..Len(old) :
          old[i].key # key => (i <= Len(new) /\ new[i] = old[i])
    /\ \A i \in 1..Len(new) :
          new[i].key # key => (i <= Len(old) /\ old[i] = new[i])

\* C3: for an activity with a conversation id, of any type, on_turn changes
\* the store if and only if the channel is "msteams" and the key is new or
\* the stored service_url differs; then only the entry under that key is
\* replaced, by a reference of the activity's six fields, and save is called
\* once; otherwise the store and the file are unchanged; entries under other
\* keys are never changed.
C3_UpsertIffNewOrChanged ==
    [][\A t \in Turns :
          (HandlesNow(t) /\ ~LacksConversationId(req[t].act)) =>
              LET act == req[t].act
                  due == act.channel_id = "msteams" /\ NewOrChanged(act, refs)
              IN
              /\ due <=> refs' # refs
              /\ due => /\ HoldsFieldsOf(refs', KeyOf(act), act)
                        /\ Len(req'[t].saves) = 1
              /\ ~due => /\ refs' = refs
                         /\ file' = file
                         /\ req'[t].saves = <<>>
              /\ OthersUnchanged(refs, refs', KeyOf(act))]_vars

\* two activities of one Teams conversation with different service URLs
\* have both been stored, the second replacing the first
C3_Witness ==
    \E t, u \in Turns :
        /\ Handled(t) /\ Handled(u)
        /\ req[t].act.conversation = Obj("a") /\ req[u].act.conversation = Obj("a")
        /\ req[t].act.service_url = "u1" /\ req[u].act.service_url = "u2"
        /\ Len(req[t].saves) = 1 /\ Len(req[u].saves) = 1
        /\ Len(refs) = 1

\* a key of the Teams channel
IsTeamsKey(k) == k \in {"msteams:", "msteams:a", "msteams:b"}

\* an entry of the file that load can process: a record whose conversation
\* is null, absent or an object
ProcessableEntry(e) ==
    e.val.kind = "rec" /\ e.val.conversation.kind \in {"none", "dict"}

\* the file exists, parses, and its object holds processable entries
ParseableFile(f) ==
    f.kind = "json" /\ \A i \in 1..Len(f.entries) : ProcessableEntry(f.entries[i])

\* what the claim admits: a Teams key and a conversation.id that is present
\* and not empty
Admissible(e) ==
    /\ IsTeamsKey(e.key)
    /\ e.val.conversation.kind = "dict"
    /\ e.val.conversation.id \notin {NONE, ""}

SomeSaveSucceeded ==
    \E t \in Turns : \E i \in 1..Len(req[t].saves) : req[t].saves[i]

\* C5: every reference held in the store and every record written to the
\* backing file has channel_id "msteams" and a conversation.id that is not
\* empty.
C5_OnlyTeamsReferences ==
    /\ \A i \in 1..Len(refs) :
          /\ refs[i].ref.channel_id = "msteams"
          /\ refs[i].ref.conversation.kind # "none"
          /\ refs[i].ref.conversation.id \notin {NONE, ""}
    /\ (SomeSaveSucceeded /\ file.kind = "json") =>
          \A i \in 1..Len(file.entries) :
              /\ file.entries[i].val.channel_id = "msteams"
              /\ file.entries[i].val.conversation.kind # "none"
              /\ file.entries[i].val.conversation.id \notin {NONE, ""}

\* a sub-object as a JSON value: null, or the fields it carries
JsonView(o) == IF o.kind = "none" THEN <<"null">> ELSE <<"object", o.id>>

\* two references carry the same six fields
SameSixFields(r, q) ==
    /\ r.activity_id = q.activity_id
    /\ JsonView(r.user) = JsonView(q.user)
    /\ JsonView(r.bot) = JsonView(q.bot)
    /\ JsonView(r.conversation) = JsonView(q.conversation)
    /\ r.channel_id = q.channel_id
    /\ r.service_url = q.service_url

\* load() of the file gives back the keys of `store`, each with the same
\* six fields
RoundTrips(store, f) ==
    LET back == LoadResult(f, <<>>) IN
    /\ ~back.raised
    /\ Len(back.refs) = Len(store)
    /\ \A i \in 1..Len(store) :
          /\ back.refs[i].key = store[i].key
          /\ SameSixFields(back.refs[i].ref, store[i].ref)

\* C6: for a store reached through on_turn upserts, a successful save
\* followed by a load of the written file yields the same key set and, for
\* each key, the same six fields, absent optional fields being null; no
\* entry is dropped or added.
C6_SaveLoadRoundTrip ==
    [][\A t \in Turns :
          (HandlesNow(t) /\ req'[t].saves = <<TRUE>>) => RoundTrips(refs', file')]_vars

\* two references, one without its optional fields, have been saved
C6_Witness ==
    /\ Len(refs) = 2
    /\ file.kind = "json" /\ Len(file.entries) = 2
    /\ \E t \in Turns :
          /\ Handled(t) /\ req[t].saves = <<TRUE>>
          /\ req[t].act.from_property = NoneVal
          /\ refs[2].ref.user = NoneVal
          /\ file.entries[2].val.user = NoneVal
          /\ file.entries[1].val.user = Dict("user")

\* some added member is not the bot
SomeoneElseAdded(act) ==
    \E i \in 1..Len(act.members_added) : act.members_added[i].id # act.recipient.id

\* C7: for a conversation update with a conversation id and a non-empty
\* members_added list (the activity naming the bot as its recipient), the
\* greeting is sent exactly once if some added member is not the bot,
\* however many there are, and nothing is sent if every added member is the
\* bot; the router is never invoked for an activity that is no message, and
\* an activity of any other type gets no reply.
C7_GreetingOnceForNewMembers ==
    \A t \in Turns :
        (Handled(t) /\ ~LacksConversationId(req[t].act)) =>
            LET act == req[t].act IN
            /\ (/\ act.type = "conversationUpdate"
                /\ Len(act.members_added) > 0
                /\ act.recipient.kind # "none") =>
                    /\ SomeoneElseAdded(act) => req[t].replies = <<Greeting>>
                    /\ ~SomeoneElseAdded(act) => req[t].replies = <<>>
            /\ act.type # "message" => req[t].routerCalls = <<>>
            /\ act.type \notin {"message", "conversationUpdate"} => req[t].replies = <<>>
            /\ (act.type = "conversationUpdate" /\ Len(act.members_added) = 0) =>
                    req[t].replies = <<>>

\* the bot and a user were added, in this order, and one greeting was sent
C7_Witness ==
    \E t \in Turns :
        /\ Handled(t) /\ req[t].pc = "done" /\ req[t].status = 200
        /\ req[t].act.type = "conversationUpdate"
        /\ req[t].act.members_added = <<Bot, User>>
        /\ req[t].replies = <<Greeting>>

\* C8: on an empty store the broadcast returns status "error", makes no
\* transport call and leaves the store unchanged.
C8_EmptyStoreBroadcast ==
    [][(bc.pc = "pending" /\ bc'.pc # "pending" /\ Len(refs) = 0) =>
          /\ bc'.pc = "done"
          /\ bc'.status = "error"
          /\ bc'.calls = <<>>
          /\ bc'.results = <<>>
          /\ refs' = refs
          /\ file' = file]_vars

\* the broadcast has returned its error result on an empty store
C8_Witness ==
    /\ bc.pc = "done" /\ bc.status = "error"
    /\ bc.calls = <<>>
    /\ refs = <<>>

\* the broadcast has run to its end over a store that was not empty and
\* that is as it was when the broadcast began
BroadcastRanAlone ==
    /\ bc.pc \in {"done", "raised"}
    /\ Len(bc.start) > 0
    /\ refs = bc.start

\* the conversation identity of a stored reference is missing
IdentityMissing(ref) ==
    ref.conversation.kind = "none" \/ ref.conversation.id \in {NONE, ""}

\* the keys of the store, in order, whose reference has an identity
RECURSIVE SendableKeys(_)
SendableKeys(store) ==
    IF store = <<>> THEN <<>>
    ELSE IF IdentityMissing(Head(store).ref) THEN SendableKeys(Tail(store))
    ELSE <<Head(store).key>> \o SendableKeys(Tail(store))

\* C9: over a non-empty store with no concurrent store mutation the
\* broadcast returns status "completed" with exactly one result per stored
\* key, in store order: "error" without a transport call for an entry whose
\* identity is missing, "error" with the captured message for an entry whose
\* transport call raises, "success" for every other entry; a failure for one
\* entry never prevents the transport attempt for a later entry.
C9_OneResultPerReference ==
    BroadcastRanAlone =>
        /\ bc.pc = "done"
        /\ bc.status = "completed"
        /\ Len(bc.results) = Len(refs)
        /\ bc.calls = SendableKeys(refs)
        /\ \A i \in 1..Len(refs) :
              i <= Len(bc.results) =>
                  /\ bc.results[i].conversation = refs[i].key
                  /\ IF IdentityMissing(refs[i].ref)
                     THEN bc.results[i].status = "error"
                     ELSE \/ bc.results[i] = SuccessResult(refs[i].key)
                          \/ /\ bc.results[i].status = "error"
                             /\ bc.results[i].message \in Exceptions

\* C10: the broadcast over a non-empty store never fails outright, also
\* when on_turn inserts new keys into the store while the broadcast is
\* suspended in the middle of its iteration: it never ends in an exception.
C10_BroadcastNeverRaises ==
    bc.pc # "raised"

\* C11: POST /api/messages answers 400 exactly when the body is no JSON,
\* 500 when anything else fails (whatever the exception, the router's, the
\* transport's or on_turn's own) and 200 otherwise.
C11_StatusByFailureKind ==
    \A t \in Turns :
        req[t].pc = "done" =>
            /\ req[t].status = 400 <=> req[t].body = "malformed"
            /\ (req[t].body = "json" /\ req[t].exc # NONE) => req[t].status = 500
            /\ req[t].exc = NONE => req[t].status = 200

\* the save of this turn was called and did not run to its end
SaveFailedNow(t) == HandlesNow(t) /\ req'[t].saves = <<FALSE>>

\* C12: a save that fails during on_turn is not surfaced: no exception of
\* the save leaves on_turn, the new entry stays in the store, and the turn
\* goes on as after a successful save: a message goes to the router with
\* its text (what follows the router call does not look at the save), new
\* members are greeted, anything else returns with status 200.
C12_SaveFailureNotSurfaced ==
    [][\A t \in Turns :
          SaveFailedNow(t) =>
              LET act == req[t].act
                  r == req'[t]
              IN
              /\ HoldsFieldsOf(refs', KeyOf(act), act)
              /\ OthersUnchanged(refs, refs', KeyOf(act))
              /\ act.type = "message" =>
                    /\ r.routerCalls = <<act.text>>
                    /\ r.pc = "routing" /\ r.exc = NONE
              /\ (/\ act.type = "conversationUpdate"
                  /\ Len(act.members_added) > 0
                  /\ act.recipient.kind # "none") =>
                    /\ SomeoneElseAdded(act) =>
                          r.replies = <<Greeting>> /\ r.pc = "sending" /\ r.exc = NONE
                    /\ ~SomeoneElseAdded(act) =>
                          r.replies = <<>> /\ r.pc = "done" /\ r.status = 200
              /\ (\/ act.type \notin {"message", "conversationUpdate"}
                  \/ act.type = "conversationUpdate" /\ Len(act.members_added) = 0) =>
                    /\ r.replies = <<>> /\ r.pc = "done"
                    /\ r.exc = NONE /\ r.status = 200]_vars

\* the save of a Teams message failed at the write, the entry is in the
\* store, the reply was sent and the request answered 200
C12_Witness ==
    \E t \in Turns :
        /\ req[t].pc = "done" /\ req[t].status = 200
        /\ req[t].act.type = "message"
        /\ req[t].saves = <<FALSE>>
        /\ req[t].replies = <<"r1">>
        /\ HoldsFieldsOf(refs, KeyOf(req[t].act), req[t].act)
        /\ file = EmptyFile

\* processing this entry of the file raises: its key is a Teams key and its
\* value is no object, or its "conversation" is a scalar
EntryRaises(e) ==
    /\ IsTeamsKey(e.key)
    /\ \/ e.val.kind # "rec"
       \/ e.val.conversation.kind \notin {"none", "dict"}

\* load fails: no file, a file that is no JSON object, or an entry raises
LoadFails(f) ==
    \/ f.kind \in {"missing", "garbage", "nonobject"}
    \/ f.kind = "json" /\ \E i \in 1..Len(f.entries) : EntryRaises(f.entries[i])

\* C13: when load fails (the file is missing, cannot be parsed as a whole,
\* or processing one of its entries raises) the store is exactly what it was
\* before the call, no entry of the file is admitted, and the program goes
\* on running: no exception leaves load.
C13_FailedLoadChangesNothing ==
    [][(phase = "boot" /\ phase' # "boot" /\ LoadFails(file)) =>
          refs' = refs /\ phase' = "running"]_vars

\* a file whose first entry is a valid Teams entry and whose second entry
\* is null has been loaded, and the store is empty
C13_Witness ==
    /\ phase = "running"
    /\ file.kind = "json" /\ Len(file.entries) = 2
    /\ file.entries[1] = [key |-> "msteams:a", val |-> Record(Dict("a"), "msteams", "u1")]
    /\ file.entries[2] = [key |-> "msteams:b", val |-> NullVal]
    /\ refs = <<>>
    /\ bc.pc = "pending"

\* this step handles a Teams activity that carries a conversation id
HandlesTeamsNow(t) ==
    /\ HandlesNow(t)
    /\ ~LacksConversationId(req[t].act)
    /\ req[t].act.channel_id = "msteams"

\* C14: the store reflects the most recent service URL.  Handling a Teams
\* activity with a conversation id leaves that activity's service_url under
\* its key, and no other step after startup changes the service_url stored
\* under a key: so each such key holds the service_url of the activity
\* handled last for it.
C14_MostRecentServiceUrl ==
    [][/\ \A t \in Turns :
             HandlesTeamsNow(t) =>
                 /\ HasKey(refs', KeyOf(req[t].act))
                 /\ Lookup(refs', KeyOf(req[t].act)).service_url
                        = req[t].act.service_url
       /\ \A k \in Keys(refs) :
             (/\ phase = "running"
              /\ ~ \E t \in Turns : HandlesTeamsNow(t) /\ KeyOf(req[t].act) = k) =>
                 /\ HasKey(refs', k)
                 /\ Lookup(refs', k).service_url = Lookup(refs, k).service_url]_vars

\* conversation a was loaded with service URL u1; an activity with u1 was
\* handled and stored nothing, a later one with u2 was stored, and the store
\* holds u2
C14_Witness ==
    \E t, u \in Turns :
        /\ Handled(t) /\ Handled(u)
        /\ req[t].act.conversation = Obj("a") /\ req[u].act.conversation = Obj("a")
        /\ req[t].act.service_url = "u1" /\ req[u].act.service_url = "u2"
        /\ req[t].saves = <<>> /\ req[u].saves = <<TRUE>>
        /\ Lookup(refs, "msteams:a").service_url = "u2"

\* the file is the JSON object of the store: the same keys in the same
\* order, each with the six fields of its reference
SnapshotMatches(store, f) ==
    /\ f.kind = "json"
    /\ Len(f.entries) = Len(store)
    /\ \A i \in 1..Len(store) :
          /\ f.entries[i].key = store[i].key
          /\ SameSixFields(f.entries[i].val, store[i].ref)

\* Teams activities of the two conversations
TeamsActivities ==
    {a \in Activities : a.channel_id = "msteams" /\ a.conversation.id \in ConvIds}

\* the stores two racing turns can start from: the present one, an empty
\* one, or one loaded entry
RaceStores == {refs, <<>>, LoadResult(WrittenFile, <<>>).refs}

\* C15 as stated: a race between two upserts can lose an update or save an
\* inconsistent snapshot.  Two Teams activities of different conversations
\* are handled concurrently; the steps of their turns that touch the store
\* run in one of two orders, and for some activities, order and outcomes an
\* inserted entry is missing from the store afterwards, or a successfully
\* written file differs from the store as it was at that save.
C15_RaceLosesUpdate ==
    \E a1, a2 \in TeamsActivities, s0 \in RaceStores :
    \E io1, io2 \in IoOutcomes :
        /\ a1.conversation.id # a2.conversation.id
        /\ LET r1 == OnTurn(a1, s0, file, io1)
               r2 == OnTurn(a2, r1.refs, r1.file, io2)
           IN  \/ ~HasKey(r2.refs, KeyOf(a1))
               \/ ~HasKey(r2.refs, KeyOf(a2))
               \/ r1.saves = <<TRUE>> /\ ~SnapshotMatches(r1.refs, r1.file)
               \/ r2.saves = <<TRUE>> /\ ~SnapshotMatches(r2.refs, r2.file)

\* C15 amended: no interleaving of concurrently handled activities loses an
\* update or saves an inconsistent snapshot.  In every state the key of every
\* handled Teams activity is in the store, and every save that succeeds
\* leaves a file that is the store as it is at that save.
C15_UpsertsAreAtomic ==
    [][/\ \A t \in Turns :
             (/\ Handled(t)'
              /\ ~LacksConversationId(req'[t].act)
              /\ req'[t].act.channel_id = "msteams") =>
                 HasKey(refs', KeyOf(req'[t].act))
       /\ \A t \in Turns :
             (HandlesNow(t) /\ req'[t].saves = <<TRUE>>) =>
                 SnapshotMatches(refs', file')]_vars

\* the turn of conversation a is suspended at its send while the turn of
\* conversation b has been handled; both entries are in the store and the
\* file holds both
C15_Witness ==
    \E t, u \in Turns :
        /\ req[t].body = "json" /\ req[t].pc = "sending"
        /\ Handled(u)
        /\ req[t].act.conversation = Obj("a") /\ req[u].act.conversation = Obj("b")
        /\ req[t].saves = <<TRUE>> /\ req[u].saves = <<TRUE>>
        /\ Keys(refs) = {"msteams:a", "msteams:b"}
        /\ SnapshotMatches(refs, file)

\* the turn of slot t has called the router and the call has not returned
WaitsForRouter(t) == req[t].pc = "routing"

\* C16: the router call is a non-blocking suspension point.  While a turn
\* waits for the router, the event loop can handle the other requests: a
\* pending inbound activity can be taken up, a pending broadcast can start,
\* and a broadcast or a turn whose awaited transport call is over can go on.
C16_RouterCallDoesNotBlock ==
    \A t \in Turns :
        WaitsForRouter(t) =>
            /\ \A u \in Turns :
                  /\ (req[u].pc = "pending" /\ req[u].body = "json") =>
                        ENABLED Messages(u)
                  /\ (req[u].pc = "pending" /\ req[u].body = "malformed") =>
                        ENABLED MessagesMalformed(u)
                  /\ req[u].pc = "sending" => ENABLED SendReturns(u)
            /\ bc.pc = "pending" => ENABLED SendCard
            /\ bc.pc = "awaiting" => ENABLED TransportReturns

\* in this step the router call of slot t ends with an exception
RouterRaisesNow(t) ==
    req[t].pc = "routing" /\ req'[t].pc # "routing" /\ req'[t].router.kind = "raise"

\* C17: when the router raises, on_turn does not catch it: no reply is sent
\* in that turn and the exception reaches the HTTP handler, which answers
\* with an error status; the store update of the same turn stays as it is,
\* in memory and in the file.
C17_RouterFailureKeepsUpsert ==
    [][\A t \in Turns :
          RouterRaisesNow(t) =>
              LET act == req[t].act
                  r == req'[t]
              IN
              /\ r.replies = <<>>
              /\ r.pc = "done"
              /\ r.exc = r.router.exc /\ r.exc # NONE
              /\ r.status \in {400, 500}
              /\ refs' = refs /\ file' = file
              /\ r.saves = req[t].saves
              /\ r.saves # <<>> => HoldsFieldsOf(refs', KeyOf(act), act)
              /\ r.saves = <<TRUE>> => SnapshotMatches(refs', file')]_vars

\* the router raised for a Teams message that had been stored and saved:
\* the request ended with status 500 and no reply, the entry is in the store
\* and in the file
C17_Witness ==
    \E t \in Turns :
        /\ req[t].pc = "done" /\ req[t].status = 500
        /\ req[t].router.kind = "raise"
        /\ req[t].replies = <<>>
        /\ req[t].saves = <<TRUE>>
        /\ HoldsFieldsOf(refs, KeyOf(req[t].act), req[t].act)
        /\ SnapshotMatches(refs, file)

\* this step is a step of the broadcast
BroadcastStep == bc' # bc

\* C18: entries are never deleted after startup.  Once the startup load is
\* over, every step of every interleaving of turns and broadcasts leaves
\* each key of the store present, and a step of the broadcast leaves the
\* store and the file as they are.
C18_KeysNeverRemoved ==
    [][phase = "running" =>
          /\ \A k \in Keys(refs) : HasKey(refs', k)
          /\ Len(refs') >= Len(refs)
          /\ BroadcastStep => (refs' = refs /\ file' = file)]_vars

\* two Teams conversations were stored one after the other and a broadcast
\* over both has completed: both keys are still in the store
C18_Witness ==
    /\ phase = "running"
    /\ Keys(refs) = {"msteams:a", "msteams:b"}
    /\ \A t \in Turns : req[t].pc \in {"none", "done"}
    /\ bc.pc = "done" /\ bc.status = "completed"
    /\ Len(bc.results) = 2

====
